---- MODULE Spec2Model ----
(***************************************************************************)
(* Model of the rc_structures ring buffer (ring_buf.h) and fifo buffer     *)
(* (fifo_buf.h).  Each C function is an operator that maps the struct (and *)
(* the arguments) to the struct after the call, the return code and        *)
(* whether a line was written to stderr; each action is one call made by a *)
(* driver that owns a single buffer, as the two test programs do.          *)
(* Storage d is a function over 0..size-1 (C indexing); NULL is the empty  *)
(* function.  The buf==NULL branch of every function is not reachable from *)
(* a driver that passes the address of its own struct and is left out.     *)
(***************************************************************************)
EXTENDS Integers, Sequences, FiniteSets, TLC

\* ---- bounds of the exploration ----
MaxCap == 3          \* largest capacity passed to alloc
MaxVal == 1          \* stored values are 0..MaxVal
MaxInserts == 3      \* ring inserts since the last real alloc/reset
MaxPush == 3         \* accepted fifo pushes since the last real alloc/reset
IntBits == 4         \* width of int in the index-arithmetic specification

Values == 0..MaxVal
AllocArgs == -1..MaxCap
Positions == -1..MaxCap

NULL == <<>>
NoPtr == -1

\* calloc(size, sizeof(T)): zero-filled storage of length n
Zeros(n) == [i \in 0..(n-1) |-> 0]

\* some slot of the storage holds a non-zero value
Dirty(d) == \E i \in DOMAIN d : d[i] # 0

(***************************************************************************)
(* ring_buf.h                                                              *)
(***************************************************************************)
RC_RINGBUF_INITIALIZER == [d |-> NULL, size |-> 0, index |-> 0, initialized |-> 0]

rc_ringbuf_empty == RC_RINGBUF_INITIALIZER

\* the "already allocated, nothing to do" test of rc_ringbuf_alloc
RbAllocated(buf, size) == buf.initialized # 0 /\ buf.size = size /\ buf.d # NULL

\* the sanity check on the requested size (off by one: accepts size 1)
RbSizeTooSmall_m1(size) == size < 1
RbSizeTooSmall(size) == size < 2

\* variant that wipes the struct before the sanity check
rc_ringbuf_alloc_m1(buf, size, callocOk) ==
    IF size < 2
    THEN [buf |-> RC_RINGBUF_INITIALIZER, ret |-> -1, diag |-> TRUE]
    ELSE IF RbAllocated(buf, size)
    THEN [buf |-> buf, ret |-> 0, diag |-> FALSE]
    ELSE IF callocOk
    THEN [buf |-> [d |-> Zeros(size), size |-> size, index |-> 0, initialized |-> 1],
          ret |-> 0, diag |-> FALSE]
    ELSE [buf |-> RC_RINGBUF_INITIALIZER, ret |-> -1, diag |-> TRUE]
\* callocOk: whether calloc returns storage
rc_ringbuf_alloc(buf, size, callocOk) ==
    IF RbSizeTooSmall(size)
    THEN [buf |-> buf, ret |-> -1, diag |-> TRUE]
    ELSE IF RbAllocated(buf, size)
    THEN [buf |-> buf, ret |-> 0, diag |-> FALSE]
    ELSE IF ~callocOk
    THEN [buf |-> [d |-> NULL, size |-> 0, index |-> 0, initialized |-> 0],
          ret |-> -1, diag |-> TRUE]
    ELSE [buf |-> [d |-> Zeros(size), size |-> size, index |-> 0, initialized |-> 1],
          ret |-> 0, diag |-> FALSE]

rc_ringbuf_free(buf) ==
    [buf |-> RC_RINGBUF_INITIALIZER, ret |-> 0, diag |-> FALSE]

\* variant that wipes the data but leaves the index where it was
rc_ringbuf_reset_m1(buf) ==
    IF buf.initialized = 0
    THEN [buf |-> buf, ret |-> -1, diag |-> TRUE]
    ELSE [buf |-> [buf EXCEPT !.d = Zeros(buf.size)], ret |-> 0, diag |-> FALSE]
rc_ringbuf_reset(buf) ==
    IF buf.initialized = 0
    THEN [buf |-> buf, ret |-> -1, diag |-> TRUE]
    ELSE [buf |-> [buf EXCEPT !.d = Zeros(buf.size), !.index = 0],
          ret |-> 0, diag |-> FALSE]

\* variant that wraps one slot early
RbNewIndex_m1(buf) ==
    IF buf.index + 1 >= buf.size - 1 THEN 0 ELSE buf.index + 1
\* new_index of rc_ringbuf_insert
RbNewIndex(buf) ==
    IF buf.index + 1 >= buf.size THEN 0 ELSE buf.index + 1

\* variant that treats the last slot as "full" instead of wrapping
rc_ringbuf_insert_m1(buf, val) ==
    IF buf.initialized = 0
    THEN [buf |-> buf, ret |-> -1, diag |-> TRUE]
    ELSE IF buf.index + 1 >= buf.size
    THEN [buf |-> buf, ret |-> -1, diag |-> FALSE]
    ELSE [buf |-> [buf EXCEPT !.d = [buf.d EXCEPT ![buf.index + 1] = val],
                              !.index = buf.index + 1],
          ret |-> 0, diag |-> FALSE]
rc_ringbuf_insert(buf, val) ==
    IF buf.initialized = 0
    THEN [buf |-> buf, ret |-> -1, diag |-> TRUE]
    ELSE [buf |-> [buf EXCEPT !.d = [buf.d EXCEPT ![RbNewIndex(buf)] = val],
                              !.index = RbNewIndex(buf)],
          ret |-> 0, diag |-> FALSE]

\* return_index of rc_ringbuf_get_value and rc_ringbuf_get_value_ptr
RbReturnIndex(buf, position) ==
    IF buf.index - position < 0
    THEN buf.index - position + buf.size
    ELSE buf.index - position

\* variant whose upper position test is off by one
rc_ringbuf_get_value_m1(buf, position, value) ==
    IF position < 0 \/ position > buf.size
    THEN [buf |-> buf, ret |-> -1, diag |-> TRUE, value |-> value]
    ELSE IF buf.initialized = 0
    THEN [buf |-> buf, ret |-> -1, diag |-> TRUE, value |-> value]
    ELSE [buf |-> buf, ret |-> 0, diag |-> FALSE,
          value |-> buf.d[RbReturnIndex(buf, position)]]
\* value: the caller's variable before the call; .value: after it
rc_ringbuf_get_value(buf, position, value) ==
    IF position < 0 \/ position > buf.size - 1
    THEN [buf |-> buf, ret |-> -1, diag |-> TRUE, value |-> value]
    ELSE IF buf.initialized = 0
    THEN [buf |-> buf, ret |-> -1, diag |-> TRUE, value |-> value]
    ELSE [buf |-> buf, ret |-> 0, diag |-> FALSE,
          value |-> buf.d[RbReturnIndex(buf, position)]]

\* variant that moves the cursor to the slot it hands out
rc_ringbuf_get_value_ptr_m1(buf, position, value_ptr) ==
    IF position < 0 \/ position > buf.size - 1
    THEN [buf |-> buf, ret |-> -1, diag |-> TRUE, value_ptr |-> value_ptr]
    ELSE IF buf.initialized = 0
    THEN [buf |-> buf, ret |-> -1, diag |-> TRUE, value_ptr |-> value_ptr]
    ELSE [buf |-> [buf EXCEPT !.index = RbReturnIndex(buf, position)],
          ret |-> 0, diag |-> FALSE,
          value_ptr |-> RbReturnIndex(buf, position)]
\* value_ptr: the caller's pointer (a slot index) before the call
rc_ringbuf_get_value_ptr(buf, position, value_ptr) ==
    IF position < 0 \/ position > buf.size - 1
    THEN [buf |-> buf, ret |-> -1, diag |-> TRUE, value_ptr |-> value_ptr]
    ELSE IF buf.initialized = 0
    THEN [buf |-> buf, ret |-> -1, diag |-> TRUE, value_ptr |-> value_ptr]
    ELSE [buf |-> buf, ret |-> 0, diag |-> FALSE,
          value_ptr |-> RbReturnIndex(buf, position)]

(***************************************************************************)
(* fifo_buf.h                                                              *)
(***************************************************************************)
RC_FIFOBUF_INITIALIZER ==
    [d |-> NULL, size |-> 0, tail |-> 0, available |-> 0, initialized |-> 0]

rc_fifobuf_empty == RC_FIFOBUF_INITIALIZER

FbAllocated(buf, size) == buf.initialized # 0 /\ buf.size = size /\ buf.d # NULL

\* variant whose "already allocated" shortcut still rewinds tail and available
rc_fifobuf_alloc_m1(buf, size, callocOk) ==
    IF size < 2
    THEN [buf |-> buf, ret |-> -1, diag |-> TRUE]
    ELSE IF FbAllocated(buf, size)
    THEN [buf |-> [buf EXCEPT !.tail = 0, !.available = 0], ret |-> 0, diag |-> FALSE]
    ELSE IF ~callocOk
    THEN [buf |-> RC_FIFOBUF_INITIALIZER, ret |-> -1, diag |-> TRUE]
    ELSE [buf |-> [d |-> Zeros(size), size |-> size, tail |-> 0, available |-> 0,
                   initialized |-> 1],
          ret |-> 0, diag |-> FALSE]
\* variant that keeps the old tail on a fresh allocation
rc_fifobuf_alloc_m2(buf, size, callocOk) ==
    IF size < 2
    THEN [buf |-> buf, ret |-> -1, diag |-> TRUE]
    ELSE IF FbAllocated(buf, size)
    THEN [buf |-> buf, ret |-> 0, diag |-> FALSE]
    ELSE IF ~callocOk
    THEN [buf |-> RC_FIFOBUF_INITIALIZER, ret |-> -1, diag |-> TRUE]
    ELSE [buf |-> [d |-> Zeros(size), size |-> size,
                   tail |-> IF buf.tail < size THEN buf.tail ELSE 0,
                   available |-> 0, initialized |-> 1],
          ret |-> 0, diag |-> FALSE]
rc_fifobuf_alloc(buf, size, callocOk) ==
    IF size < 2
    THEN [buf |-> buf, ret |-> -1, diag |-> TRUE]
    ELSE IF FbAllocated(buf, size)
    THEN [buf |-> buf, ret |-> 0, diag |-> FALSE]
    ELSE IF ~callocOk
    THEN [buf |-> [d |-> NULL, size |-> 0, tail |-> 0, available |-> 0,
                   initialized |-> 0],
          ret |-> -1, diag |-> TRUE]
    ELSE [buf |-> [d |-> Zeros(size), size |-> size, tail |-> 0, available |-> 0,
                   initialized |-> 1],
          ret |-> 0, diag |-> FALSE]

\* variant that frees the storage but keeps the bookkeeping fields
rc_fifobuf_free_m1(buf) ==
    [buf |-> [buf EXCEPT !.d = NULL, !.initialized = 0], ret |-> 0, diag |-> FALSE]
rc_fifobuf_free(buf) ==
    [buf |-> RC_FIFOBUF_INITIALIZER, ret |-> 0, diag |-> FALSE]

rc_fifobuf_reset(buf) ==
    IF buf.initialized = 0
    THEN [buf |-> buf, ret |-> -1, diag |-> TRUE]
    ELSE [buf |-> [buf EXCEPT !.d = Zeros(buf.size), !.tail = 0, !.available = 0],
          ret |-> 0, diag |-> FALSE]

\* variant that reads the count without the initialized check
rc_fifobuf_available_m1(buf) ==
    [buf |-> buf, ret |-> buf.available, diag |-> FALSE]
rc_fifobuf_available(buf) ==
    IF buf.initialized = 0
    THEN [buf |-> buf, ret |-> -1, diag |-> TRUE]
    ELSE [buf |-> buf, ret |-> buf.available, diag |-> FALSE]

\* variant that forgets the read position
FbNewIndex_m1(buf) == buf.available % buf.size
\* new_index of rc_fifobuf_push
FbNewIndex(buf) == (buf.tail + buf.available) % buf.size

\* variant whose full test is off by one
FbFull_m1(buf) == buf.available > buf.size
\* the "check for full" of rc_fifobuf_push
FbFull(buf) == buf.available = buf.size

\* variant that reports a full buffer on stderr
rc_fifobuf_push_m1(buf, val) ==
    IF buf.initialized = 0
    THEN [buf |-> buf, ret |-> -1, diag |-> TRUE]
    ELSE IF FbFull(buf)
    THEN [buf |-> buf, ret |-> -1, diag |-> TRUE]
    ELSE [buf |-> [buf EXCEPT !.d = [buf.d EXCEPT ![FbNewIndex(buf)] = val],
                              !.available = buf.available + 1],
          ret |-> 0, diag |-> FALSE]
rc_fifobuf_push(buf, val) ==
    IF buf.initialized = 0
    THEN [buf |-> buf, ret |-> -1, diag |-> TRUE]
    ELSE IF FbFull(buf)
    THEN [buf |-> buf, ret |-> -1, diag |-> FALSE]
    ELSE [buf |-> [buf EXCEPT !.d = [buf.d EXCEPT ![FbNewIndex(buf)] = val],
                              !.available = buf.available + 1],
          ret |-> 0, diag |-> FALSE]

\* variant that zeroes the caller's variable before the empty test
rc_fifobuf_pop_m1(buf, value) ==
    IF buf.initialized = 0
    THEN [buf |-> buf, ret |-> -1, diag |-> TRUE, value |-> value]
    ELSE IF buf.available = 0
    THEN [buf |-> buf, ret |-> -1, diag |-> FALSE, value |-> 0]
    ELSE [buf |-> [buf EXCEPT !.available = buf.available - 1,
                              !.tail = (buf.tail + 1) % buf.size],
          ret |-> 0, diag |-> FALSE, value |-> buf.d[buf.tail]]
\* variant that does not advance the count
rc_fifobuf_pop_m2(buf, value) ==
    IF buf.initialized = 0
    THEN [buf |-> buf, ret |-> -1, diag |-> TRUE, value |-> value]
    ELSE IF buf.available = 0
    THEN [buf |-> buf, ret |-> -1, diag |-> FALSE, value |-> value]
    ELSE [buf |-> [buf EXCEPT !.tail = (buf.tail + 1) % buf.size],
          ret |-> 0, diag |-> FALSE, value |-> buf.d[buf.tail]]
rc_fifobuf_pop(buf, value) ==
    IF buf.initialized = 0
    THEN [buf |-> buf, ret |-> -1, diag |-> TRUE, value |-> value]
    ELSE IF buf.available = 0
    THEN [buf |-> buf, ret |-> -1, diag |-> FALSE, value |-> value]
    ELSE [buf |-> [buf EXCEPT !.available = buf.available - 1,
                              !.tail = (buf.tail + 1) % buf.size],
          ret |-> 0, diag |-> FALSE, value |-> buf.d[buf.tail]]

\* variant that scrubs the slot it hands out
rc_fifobuf_pop_ptr_m2(buf, value_ptr) ==
    IF buf.initialized = 0
    THEN [buf |-> buf, ret |-> -1, diag |-> TRUE, value_ptr |-> value_ptr]
    ELSE IF buf.available = 0
    THEN [buf |-> buf, ret |-> -1, diag |-> FALSE, value_ptr |-> value_ptr]
    ELSE [buf |-> [buf EXCEPT !.d = [buf.d EXCEPT ![buf.tail] = 0],
                              !.available = buf.available - 1,
                              !.tail = (buf.tail + 1) % buf.size],
          ret |-> 0, diag |-> FALSE, value_ptr |-> buf.tail]
\* variant that takes the address after the tail has moved on
rc_fifobuf_pop_ptr_m1(buf, value_ptr) ==
    IF buf.initialized = 0
    THEN [buf |-> buf, ret |-> -1, diag |-> TRUE, value_ptr |-> value_ptr]
    ELSE IF buf.available = 0
    THEN [buf |-> buf, ret |-> -1, diag |-> FALSE, value_ptr |-> value_ptr]
    ELSE [buf |-> [buf EXCEPT !.available = buf.available - 1,
                              !.tail = (buf.tail + 1) % buf.size],
          ret |-> 0, diag |-> FALSE, value_ptr |-> (buf.tail + 1) % buf.size]
rc_fifobuf_pop_ptr(buf, value_ptr) ==
    IF buf.initialized = 0
    THEN [buf |-> buf, ret |-> -1, diag |-> TRUE, value_ptr |-> value_ptr]
    ELSE IF buf.available = 0
    THEN [buf |-> buf, ret |-> -1, diag |-> FALSE, value_ptr |-> value_ptr]
    ELSE [buf |-> [buf EXCEPT !.available = buf.available - 1,
                              !.tail = (buf.tail + 1) % buf.size],
          ret |-> 0, diag |-> FALSE, value_ptr |-> buf.tail]

(***************************************************************************)
(* The heap as the buffer sees it.  Every calloc returns a block that never *)
(* existed before, so a block is known to the program only through buf->d; *)
(* the heap record keeps the state of the block d points to ("null" for    *)
(* d == NULL), the number of live blocks that no pointer reaches any more, *)
(* and whether a freed block was freed again or a block that is not live   *)
(* was read or written.                                                    *)
(***************************************************************************)
NoHeap == [d |-> "null", leaked |-> 0, double_free |-> FALSE, bad_access |-> FALSE]

\* free(buf->d): free(NULL) does nothing
HeapFree(h) ==
    CASE h.d = "null"  -> h
      [] h.d = "live"  -> [h EXCEPT !.d = "freed"]
      [] h.d = "freed" -> [h EXCEPT !.double_free = TRUE]

\* buf->d = p, with p NULL ("null") or a fresh block ("live"): a live block
\* whose only pointer is overwritten stays live for ever
HeapAssign(h, p) ==
    [h EXCEPT !.d = p,
              !.leaked = IF h.d = "live" THEN h.leaked + 1 ELSE h.leaked]

\* buf->d = calloc(size, sizeof(T))
HeapCalloc(h, callocOk) == HeapAssign(h, IF callocOk THEN "live" ELSE "null")

\* a read or write of buf->d[i], or a memset over buf->d
HeapAccess(h) ==
    IF h.d = "live" THEN h ELSE [h EXCEPT !.bad_access = TRUE]

\* variant that calls calloc without freeing the old storage first
rc_ringbuf_alloc_heap_m1(buf, h, size, callocOk) ==
    IF RbSizeTooSmall(size) \/ RbAllocated(buf, size)
    THEN h
    ELSE HeapCalloc(h, callocOk)

\* rc_ringbuf_alloc: free(buf->d); buf->d = calloc(...)
rc_ringbuf_alloc_heap(buf, h, size, callocOk) ==
    IF RbSizeTooSmall(size) \/ RbAllocated(buf, size)
    THEN h
    ELSE HeapCalloc(HeapFree(h), callocOk)

\* rc_ringbuf_free: if(buf->initialized) free(buf->d); *buf = new
rc_ringbuf_free_heap(buf, h) ==
    HeapAssign(IF buf.initialized # 0 THEN HeapFree(h) ELSE h, "null")

\* reset (memset), insert (d[new_index] = val) and get_value
\* (*value = d[return_index]) touch the storage once they got past
\* their checks, that is when they return 0
rc_ringbuf_access_heap(h, ret) ==
    IF ret = 0 THEN HeapAccess(h) ELSE h

\* rc_fifobuf_alloc: free(buf->d); buf->d = calloc(...)
rc_fifobuf_alloc_heap(buf, h, size, callocOk) ==
    IF size < 2 \/ FbAllocated(buf, size)
    THEN h
    ELSE HeapCalloc(HeapFree(h), callocOk)

\* rc_fifobuf_free: if(buf->initialized) free(buf->d); *buf = new
rc_fifobuf_free_heap(buf, h) ==
    HeapAssign(IF buf.initialized # 0 THEN HeapFree(h) ELSE h, "null")

\* reset (memset), push (d[new_index] = val) and pop (*value = d[tail])
rc_fifobuf_access_heap(h, ret) ==
    IF ret = 0 THEN HeapAccess(h) ELSE h

(***************************************************************************)
(* The drivers: one buffer, any sequence of calls on it.                   *)
(***************************************************************************)
VARIABLES
    which,      \* which driver runs: "ring" (test_ring_buf.c) or "fifo"
    rb,         \* the rc_ringbuf_t of the ring driver
    fb,         \* the rc_fifobuf_t of the fifo driver
    val,        \* the driver's local val, written through the value argument
    val_ptr,    \* the driver's local val_ptr: the slot it points to, or NoPtr
    last,       \* the call just made: op, arg, ret, diag, again, pre
    inserted,   \* ring values inserted since the last real alloc or reset
    pushed,     \* fifo values accepted since the last real alloc or reset
    popped,     \* fifo values handed out since the last real alloc or reset
    ref,        \* the slot the last pop_ptr handed out: the value it held,
                \* the count before that call, accepted pushes since
    ix,         \* index arithmetic in int of IntBits bits: the counters of
                \* the struct and the storage index of the last access
    heap        \* the block buf->d points to and what became of the others

vars == <<which, rb, fb, val, val_ptr, last, inserted, pushed, popped, ref, ix,
          heap>>

\* no pop_ptr reference into the current storage
NoRef == [slot |-> NoPtr, value |-> 0, k |-> 0, pushes |-> 0]
\* the push that reuses the slot of a pop_ptr made at count k is push
\* number size - k + 1 after it; later pushes are not counted
RefLive(buf, rf) == rf.slot # NoPtr /\ rf.pushes < buf.size - rf.k + 1

\* pre: what the buffer was before an alloc, free or reset call;
\* again: a free call that directly follows a free call
Pre(buf) == [size |-> buf.size, initialized |-> buf.initialized, dirty |-> Dirty(buf.d)]
NoPre == [size |-> 0, initialized |-> 0, dirty |-> FALSE]

\* the counters before any call; accessed: the call indexed the storage,
\* acc: with which index, ovf: an intermediate result left the int range
IxIdle == [size |-> 0, tail |-> 0, available |-> 0, index |-> 0, op |-> "none",
           accessed |-> FALSE, acc |-> 0, ovf |-> FALSE]

Call(op, arg, r, pre) ==
    [op |-> op, arg |-> arg, ret |-> r.ret, diag |-> r.diag,
     again |-> (op \in {"rb_free", "fb_free"} /\ last.op = op), pre |-> pre]

Init ==
    /\ which \in {"ring", "fifo"}
    /\ rb = RC_RINGBUF_INITIALIZER
    /\ fb = RC_FIFOBUF_INITIALIZER
    /\ val \in Values
    /\ val_ptr = NoPtr
    /\ last = [op |-> "init", arg |-> 0, ret |-> 0, diag |-> FALSE,
               again |-> FALSE, pre |-> NoPre]
    /\ inserted = <<>>
    /\ pushed = <<>>
    /\ popped = <<>>
    /\ ref = NoRef
    /\ ix = IxIdle
    /\ heap = NoHeap

RingFrame == UNCHANGED <<which, fb, pushed, popped, ref, ix>>
FifoFrame == UNCHANGED <<which, rb, inserted, ix>>

RbAlloc ==
    /\ which = "ring"
    /\ \E size \in AllocArgs, callocOk \in BOOLEAN :
         LET r == rc_ringbuf_alloc(rb, size, callocOk) IN
         /\ rb' = r.buf
         /\ last' = Call("rb_alloc", size, r, Pre(rb))
         /\ heap' = rc_ringbuf_alloc_heap(rb, heap, size, callocOk)
         /\ inserted' = IF RbSizeTooSmall(size) \/ RbAllocated(rb, size)
                        THEN inserted ELSE <<>>
    /\ UNCHANGED <<val, val_ptr>>
    /\ RingFrame

RbFree ==
    /\ which = "ring"
    /\ LET r == rc_ringbuf_free(rb) IN
         /\ rb' = r.buf
         /\ last' = Call("rb_free", 0, r, Pre(rb))
         /\ heap' = rc_ringbuf_free_heap(rb, heap)
    /\ inserted' = <<>>
    /\ UNCHANGED <<val, val_ptr>>
    /\ RingFrame

RbReset ==
    /\ which = "ring"
    /\ LET r == rc_ringbuf_reset(rb) IN
         /\ rb' = r.buf
         /\ last' = Call("rb_reset", 0, r, Pre(rb))
         /\ heap' = rc_ringbuf_access_heap(heap, r.ret)
         /\ inserted' = IF r.ret = 0 THEN <<>> ELSE inserted
    /\ UNCHANGED <<val, val_ptr>>
    /\ RingFrame

RbInsert ==
    /\ which = "ring"
    /\ Len(inserted) < MaxInserts
    /\ \E v \in Values :
         LET r == rc_ringbuf_insert(rb, v) IN
         /\ rb' = r.buf
         /\ last' = Call("rb_insert", v, r, NoPre)
         /\ heap' = rc_ringbuf_access_heap(heap, r.ret)
         /\ inserted' = IF r.ret = 0 THEN Append(inserted, v) ELSE inserted
    /\ UNCHANGED <<val, val_ptr>>
    /\ RingFrame

RbGetValue ==
    /\ which = "ring"
    /\ \E position \in Positions :
         LET r == rc_ringbuf_get_value(rb, position, val) IN
         /\ rb' = r.buf
         /\ val' = r.value
         /\ last' = Call("rb_get_value", position, r, NoPre)
         /\ heap' = rc_ringbuf_access_heap(heap, r.ret)
    /\ UNCHANGED <<val_ptr, inserted>>
    /\ RingFrame

\* the driver reads *val_ptr right after a successful call: that read is
\* the access of the storage
RbGetValuePtr ==
    /\ which = "ring"
    /\ \E position \in Positions :
         LET r == rc_ringbuf_get_value_ptr(rb, position, val_ptr) IN
         /\ rb' = r.buf
         /\ val_ptr' = r.value_ptr
         /\ last' = Call("rb_get_value_ptr", position, r, NoPre)
         /\ heap' = rc_ringbuf_access_heap(heap, r.ret)
    /\ UNCHANGED <<val, inserted>>
    /\ RingFrame

FbAlloc ==
    /\ which = "fifo"
    /\ \E size \in AllocArgs, callocOk \in BOOLEAN :
         LET r == rc_fifobuf_alloc(fb, size, callocOk) IN
         /\ fb' = r.buf
         /\ last' = Call("fb_alloc", size, r, Pre(fb))
         /\ heap' = rc_fifobuf_alloc_heap(fb, heap, size, callocOk)
         /\ IF size < 2 \/ FbAllocated(fb, size)
            THEN UNCHANGED <<pushed, popped, ref>>
            ELSE pushed' = <<>> /\ popped' = <<>> /\ ref' = NoRef
    /\ UNCHANGED <<val, val_ptr>>
    /\ FifoFrame

FbFree ==
    /\ which = "fifo"
    /\ LET r == rc_fifobuf_free(fb) IN
         /\ fb' = r.buf
         /\ last' = Call("fb_free", 0, r, Pre(fb))
         /\ heap' = rc_fifobuf_free_heap(fb, heap)
    /\ pushed' = <<>>
    /\ popped' = <<>>
    /\ ref' = NoRef
    /\ UNCHANGED <<val, val_ptr>>
    /\ FifoFrame

FbReset ==
    /\ which = "fifo"
    /\ LET r == rc_fifobuf_reset(fb) IN
         /\ fb' = r.buf
         /\ last' = Call("fb_reset", 0, r, Pre(fb))
         /\ heap' = rc_fifobuf_access_heap(heap, r.ret)
         /\ IF r.ret = 0
            THEN pushed' = <<>> /\ popped' = <<>> /\ ref' = NoRef
            ELSE UNCHANGED <<pushed, popped, ref>>
    /\ UNCHANGED <<val, val_ptr>>
    /\ FifoFrame

FbAvailable ==
    /\ which = "fifo"
    /\ LET r == rc_fifobuf_available(fb) IN
         /\ fb' = r.buf
         /\ last' = Call("fb_available", 0, r, NoPre)
         /\ heap' = heap
    /\ UNCHANGED <<val, val_ptr, pushed, popped, ref>>
    /\ FifoFrame

FbPush ==
    /\ which = "fifo"
    /\ \E v \in Values :
         LET r == rc_fifobuf_push(fb, v) IN
         /\ Len(pushed) < MaxPush \/ r.ret = -1
         /\ fb' = r.buf
         /\ last' = Call("fb_push", v, r, NoPre)
         /\ heap' = rc_fifobuf_access_heap(heap, r.ret)
         /\ pushed' = IF r.ret = 0 THEN Append(pushed, v) ELSE pushed
         /\ ref' = IF r.ret = 0 /\ RefLive(fb, ref)
                   THEN [ref EXCEPT !.pushes = ref.pushes + 1] ELSE ref
    /\ UNCHANGED <<val, val_ptr, popped>>
    /\ FifoFrame

FbPop ==
    /\ which = "fifo"
    /\ LET r == rc_fifobuf_pop(fb, val) IN
         /\ fb' = r.buf
         /\ val' = r.value
         /\ last' = Call("fb_pop", 0, r, NoPre)
         /\ heap' = rc_fifobuf_access_heap(heap, r.ret)
         /\ popped' = IF r.ret = 0 THEN Append(popped, r.value) ELSE popped
    /\ UNCHANGED <<val_ptr, pushed, ref>>
    /\ FifoFrame

\* the driver reads *val_ptr right after a successful call: that read is
\* the access of the storage
FbPopPtr ==
    /\ which = "fifo"
    /\ LET r == rc_fifobuf_pop_ptr(fb, val_ptr) IN
         /\ fb' = r.buf
         /\ val_ptr' = r.value_ptr
         /\ last' = Call("fb_pop_ptr", 0, r, NoPre)
         /\ heap' = rc_fifobuf_access_heap(heap, r.ret)
         /\ popped' = IF r.ret = 0 THEN Append(popped, r.buf.d[r.value_ptr]) ELSE popped
         /\ ref' = IF r.ret = 0
                   THEN [slot |-> r.value_ptr, value |-> fb.d[r.value_ptr],
                         k |-> fb.available, pushes |-> 0]
                   ELSE ref
    /\ UNCHANGED <<val, pushed>>
    /\ FifoFrame

Next ==
    \/ RbAlloc
    \/ RbFree
    \/ RbReset
    \/ RbInsert
    \/ RbGetValue
    \/ RbGetValuePtr
    \/ FbAlloc
    \/ FbFree
    \/ FbReset
    \/ FbAvailable
    \/ FbPush
    \/ FbPop
    \/ FbPopPtr

Spec == Init /\ [][Next]_vars

(***************************************************************************)
(* Index arithmetic in a signed int of IntBits bits.  The stored values    *)
(* play no part in any index, so this specification keeps only size,       *)
(* tail, available and index, lets the capacity range over every int >= 2  *)
(* and records the index of each storage access.  A call that returns      *)
(* before it indexes the storage is not a step.  Signed overflow is        *)
(* undefined: the result is either the wrapped int or, where the compiler  *)
(* keeps the sum in a wider register, the exact sum.                       *)
(***************************************************************************)
INT_MAX == 2^(IntBits - 1) - 1
INT_MIN == -(2^(IntBits - 1))
InInt(x) == INT_MIN <= x /\ x <= INT_MAX
WrapInt(x) == ((x - INT_MIN) % (2^IntBits)) + INT_MIN
\* the % of C: the remainder has the sign of the dividend
CRem(a, b) == IF a >= 0 THEN a % b ELSE -((-a) % b)

\* (buf->tail + buf->available) % buf->size of rc_fifobuf_push
PushIndexOutcomes(tail, available, size) ==
    IF InInt(tail + available)
    THEN {CRem(tail + available, size)}
    ELSE {CRem(WrapInt(tail + available), size), CRem(tail + available, size)}

IxAccess(op, i, ovf) ==
    [ix EXCEPT !.op = op, !.accessed = TRUE, !.acc = i, !.ovf = ovf]

IdxFrame ==
    UNCHANGED <<which, rb, fb, val, val_ptr, last, inserted, pushed, popped, ref,
                heap>>

\* rc_fifobuf_alloc / rc_ringbuf_alloc that allocates: calloc indexes nothing
IdxAlloc ==
    /\ \E size \in 2..INT_MAX :
         /\ ~(ix.size = size)
         /\ ix' = [IxIdle EXCEPT !.size = size, !.op = "alloc"]
    /\ IdxFrame

IdxPush ==
    /\ which = "fifo"
    /\ ix.size # 0
    /\ ix.available # ix.size
    /\ \E new_index \in PushIndexOutcomes(ix.tail, ix.available, ix.size) :
         ix' = [IxAccess("push", new_index, ~InInt(ix.tail + ix.available))
                  EXCEPT !.available = ix.available + 1]
    /\ IdxFrame

\* rc_fifobuf_pop and rc_fifobuf_pop_ptr: d[tail], then tail = (tail + 1) % size
IdxPop ==
    /\ which = "fifo"
    /\ ix.size # 0
    /\ ix.available # 0
    /\ ix' = [IxAccess("pop", ix.tail, ~InInt(ix.tail + 1))
                EXCEPT !.available = ix.available - 1,
                       !.tail = CRem(ix.tail + 1, ix.size)]
    /\ IdxFrame

\* rc_ringbuf_insert: new_index = index + 1, 0 when >= size
IdxInsert ==
    /\ which = "ring"
    /\ ix.size # 0
    /\ LET new_index == IF ix.index + 1 >= ix.size THEN 0 ELSE ix.index + 1 IN
       ix' = [IxAccess("insert", new_index, ~InInt(ix.index + 1))
                EXCEPT !.index = new_index]
    /\ IdxFrame

\* rc_ringbuf_get_value and rc_ringbuf_get_value_ptr past the range check
IdxGet ==
    /\ which = "ring"
    /\ ix.size # 0
    /\ \E position \in INT_MIN..INT_MAX :
         /\ ~(position < 0 \/ position > ix.size - 1)
         /\ LET diff == ix.index - position
                return_index == IF diff < 0 THEN diff + ix.size ELSE diff IN
            ix' = IxAccess("get", return_index,
                           ~InInt(ix.size - 1) \/ ~InInt(diff) \/ ~InInt(return_index))
    /\ IdxFrame

NextIdx ==
    \/ IdxAlloc
    \/ IdxPush
    \/ IdxPop
    \/ IdxInsert
    \/ IdxGet

SpecIdx == Init /\ [][NextIdx]_vars

(***************************************************************************)
(* Properties                                                              *)
(***************************************************************************)

\* the value expected p steps behind the latest insert
Lookback(p) ==
    IF p < Len(inserted) THEN inserted[Len(inserted) - p] ELSE 0

\* C1: on a ring buffer allocated (or reset) at capacity c and then given
\* the inserts v1..vn, get(p) succeeds for every 0 <= p < c and yields
\* v(n-p) when p < n and zero when p >= n.
C1_RingLookback ==
    /\ rb.initialized # 0 =>
         \A p \in 0..(rb.size - 1) :
            LET r == rc_ringbuf_get_value(rb, p, val) IN
            r.ret = 0 /\ r.value = Lookback(p)
    /\ (last.op = "rb_get_value" /\ rb.initialized # 0
          /\ last.arg >= 0 /\ last.arg < rb.size) =>
         (last.ret = 0 /\ val = Lookback(last.arg))

\* more inserts than slots, and the oldest retained value was just read
C1_Witness ==
    /\ last.op = "rb_get_value" /\ last.ret = 0
    /\ rb.size = 2 /\ Len(inserted) = 3
    /\ last.arg = 1
    /\ val = inserted[2] /\ val # 0 /\ inserted[1] # val

IsPrefix(s, t) == Len(s) <= Len(t) /\ \A i \in 1..Len(s) : s[i] = t[i]

\* C2: the values handed out by successful pops are, in order, a prefix of
\* the values accepted by successful pushes.
C2_FifoOrder ==
    fb.initialized # 0 => IsPrefix(popped, pushed)

\* both the write index and the read index have wrapped
C2_Witness ==
    /\ last.op = "fb_pop" /\ last.ret = 0
    /\ fb.size = 2 /\ fb.tail = 1 /\ Len(popped) = 3 /\ popped = pushed
    /\ popped[1] # popped[2] /\ popped[2] # popped[3]

C4_PopEmptyRejected ==
    [][(last'.op = "fb_pop" /\ fb.initialized # 0 /\ fb.available = 0) =>
         (/\ last'.ret = -1
          /\ fb' = fb
          /\ val' = val)]_vars

\* a rejected pop after everything pushed has been popped
C4_Witness ==
    /\ last.op = "fb_pop" /\ last.ret = -1
    /\ fb.initialized # 0 /\ fb.available = 0
    /\ Len(pushed) > 0 /\ popped = pushed
    /\ val # 0

\* C5: on an allocated fifo buffer 0 <= count <= capacity and
\* 0 <= head < capacity, and available() returns count, which is the number
\* of accepted pushes minus the number of successful pops.
C5_FifoCount ==
    /\ fb.initialized # 0 =>
         /\ 0 <= fb.available /\ fb.available <= fb.size
         /\ 0 <= fb.tail /\ fb.tail < fb.size
         /\ rc_fifobuf_available(fb).ret = fb.available
         /\ fb.available = Len(pushed) - Len(popped)
    /\ (last.op = "fb_available" /\ fb.initialized # 0) =>
         last.ret = Len(pushed) - Len(popped)

\* available() answered 1 after pushes and pops that wrapped the head
C5_Witness ==
    /\ last.op = "fb_available" /\ last.ret = 1
    /\ fb.size = 2 /\ Len(pushed) = 3 /\ Len(popped) = 2
    /\ fb.tail = 0

\* C6: whenever the ring buffer is initialized, 0 <= cursor < capacity and
\* capacity >= 2.
C6_RingCursor ==
    rb.initialized # 0 =>
        /\ 0 <= rb.index /\ rb.index < rb.size
        /\ rb.size >= 2

\* the insert that wraps the cursor back to slot 0
C6_Witness ==
    /\ last.op = "rb_insert" /\ last.ret = 0
    /\ rb.initialized # 0 /\ rb.index = 0
    /\ Len(inserted) = rb.size

\* C7: allocate(c) on a buffer already allocated at capacity c succeeds and
\* leaves the struct and every stored element as they were, for both types.
C7_AllocSameCapacityNoop ==
    [][/\ (last'.op = "rb_alloc" /\ rb.initialized # 0 /\ rb.size = last'.arg) =>
            /\ last'.ret = 0
            /\ rb' = rb
            /\ \A p \in 0..(rb.size - 1) :
                 rc_ringbuf_get_value(rb', p, val) = rc_ringbuf_get_value(rb, p, val)
       /\ (last'.op = "fb_alloc" /\ fb.initialized # 0 /\ fb.size = last'.arg) =>
            /\ last'.ret = 0
            /\ fb' = fb
            /\ rc_fifobuf_pop(fb', val) = rc_fifobuf_pop(fb, val)]_vars

\* a same-capacity allocate on a ring buffer that holds data
C7_Witness ==
    /\ last.op = "rb_alloc" /\ last.ret = 0
    /\ last.pre.initialized # 0 /\ last.pre.size = last.arg /\ last.pre.dirty
    /\ rb.index # 0 /\ Dirty(rb.d) /\ Len(inserted) > 0

\* C8: a successful allocate(c), c >= 2, on an empty buffer or on a buffer
\* of another capacity leaves capacity c, every slot zero and cursor 0
\* (fifo: head 0, count 0), whatever the buffer held before.
C8_RealAllocZeroed ==
    [][/\ (/\ last'.op = "rb_alloc" /\ last'.ret = 0 /\ last'.arg >= 2
           /\ (rb.initialized = 0 \/ rb.size # last'.arg)) =>
            /\ rb'.initialized # 0
            /\ rb'.size = last'.arg
            /\ DOMAIN rb'.d = 0..(last'.arg - 1)
            /\ \A i \in 0..(last'.arg - 1) : rb'.d[i] = 0
            /\ rb'.index = 0
            /\ \A p \in 0..(last'.arg - 1) :
                 LET r == rc_ringbuf_get_value(rb', p, val) IN
                 r.ret = 0 /\ r.value = 0
       /\ (/\ last'.op = "fb_alloc" /\ last'.ret = 0 /\ last'.arg >= 2
           /\ (fb.initialized = 0 \/ fb.size # last'.arg)) =>
            /\ fb'.initialized # 0
            /\ fb'.size = last'.arg
            /\ DOMAIN fb'.d = 0..(last'.arg - 1)
            /\ \A i \in 0..(last'.arg - 1) : fb'.d[i] = 0
            /\ fb'.tail = 0
            /\ fb'.available = 0
            /\ rc_fifobuf_available(fb').ret = 0]_vars

\* a ring buffer holding data was reallocated at another capacity
C8_Witness ==
    /\ last.op = "rb_alloc" /\ last.ret = 0
    /\ last.pre.initialized # 0 /\ last.pre.dirty /\ last.pre.size # last.arg
    /\ rb.initialized # 0 /\ rb.size = last.arg

\* C9: allocate(c) with c < 2 fails and leaves the buffer as it was, for
\* both types.
C9_AllocRejectsSmall ==
    [][/\ (last'.op = "rb_alloc" /\ last'.arg < 2) =>
            (last'.ret = -1 /\ rb' = rb)
       /\ (last'.op = "fb_alloc" /\ last'.arg < 2) =>
            (last'.ret = -1 /\ fb' = fb)]_vars

\* a rejected allocate on a fifo buffer that holds data
C9_Witness ==
    /\ last.op = "fb_alloc" /\ last.arg < 2 /\ last.ret = -1
    /\ last.pre.initialized # 0 /\ last.pre.dirty
    /\ fb.initialized # 0 /\ fb.available > 0 /\ fb.tail # 0 /\ Dirty(fb.d)

RbIsEmpty(buf) ==
    buf.d = NULL /\ buf.size = 0 /\ buf.index = 0 /\ buf.initialized = 0
FbIsEmpty(buf) ==
    /\ buf.d = NULL /\ buf.size = 0 /\ buf.tail = 0
    /\ buf.available = 0 /\ buf.initialized = 0

\* C10: release() succeeds in every state and leaves the empty state; a
\* second release() right after it succeeds and leaves the same state.
C10_ReleaseIdempotent ==
    /\ last.op = "rb_free" => (last.ret = 0 /\ RbIsEmpty(rb))
    /\ last.op = "fb_free" => (last.ret = 0 /\ FbIsEmpty(fb))
    /\ LET once == rc_ringbuf_free(rb)
           twice == rc_ringbuf_free(once.buf) IN
       once.ret = 0 /\ RbIsEmpty(once.buf) /\ twice.ret = 0 /\ RbIsEmpty(twice.buf)
    /\ LET once == rc_fifobuf_free(fb)
           twice == rc_fifobuf_free(once.buf) IN
       once.ret = 0 /\ FbIsEmpty(once.buf) /\ twice.ret = 0 /\ FbIsEmpty(twice.buf)

\* the second of two consecutive releases of a ring buffer
C10_Witness ==
    /\ last.op = "rb_free" /\ last.again /\ last.ret = 0
    /\ last.pre.initialized = 0
    /\ RbIsEmpty(rb)

\* C11: reset() on an allocated buffer succeeds, zeroes every slot, sets the
\* cursor to 0 (fifo: head 0 and count 0) and keeps the capacity; afterwards
\* every valid get(p) returns zero, available() returns 0 and pop fails.
C11_ResetClears ==
    [][/\ (last'.op = "rb_reset" /\ rb.initialized # 0) =>
            /\ last'.ret = 0
            /\ rb'.initialized # 0
            /\ rb'.size = rb.size
            /\ DOMAIN rb'.d = 0..(rb.size - 1)
            /\ \A i \in 0..(rb.size - 1) : rb'.d[i] = 0
            /\ rb'.index = 0
            /\ \A p \in 0..(rb.size - 1) :
                 LET r == rc_ringbuf_get_value(rb', p, val) IN
                 r.ret = 0 /\ r.value = 0
       /\ (last'.op = "fb_reset" /\ fb.initialized # 0) =>
            /\ last'.ret = 0
            /\ fb'.initialized # 0
            /\ fb'.size = fb.size
            /\ DOMAIN fb'.d = 0..(fb.size - 1)
            /\ \A i \in 0..(fb.size - 1) : fb'.d[i] = 0
            /\ fb'.tail = 0
            /\ fb'.available = 0
            /\ rc_fifobuf_available(fb').ret = 0
            /\ rc_fifobuf_pop(fb', val).ret = -1]_vars

\* a fifo buffer of capacity 3 that held data was reset
C11_Witness ==
    /\ last.op = "fb_reset" /\ last.ret = 0
    /\ last.pre.initialized # 0 /\ last.pre.dirty /\ last.pre.size = 3
    /\ fb.initialized # 0 /\ fb.size = 3 /\ ~Dirty(fb.d)
    /\ fb.tail = 0 /\ fb.available = 0
    /\ pushed = <<>> /\ popped = <<>>

RbNeedsStorage == {"rb_reset", "rb_insert", "rb_get_value", "rb_get_value_ptr"}
FbNeedsStorage == {"fb_reset", "fb_available", "fb_push", "fb_pop", "fb_pop_ptr"}

\* C12: on a buffer that is not allocated, reset, insert and get(p) for every
\* p (fifo: reset, available, push, pop) fail and leave the buffer in the
\* same empty state; only allocate leaves the empty state.
C12_UnallocatedFails ==
    [][/\ (which = "ring" /\ rb.initialized = 0) =>
            /\ RbIsEmpty(rb)
            /\ \A p \in Positions :
                 /\ rc_ringbuf_get_value(rb, p, val).ret = -1
                 /\ rc_ringbuf_get_value_ptr(rb, p, val_ptr).ret = -1
            /\ last'.op \in RbNeedsStorage =>
                 (last'.ret = -1 /\ rb' = rb /\ RbIsEmpty(rb'))
            /\ ~RbIsEmpty(rb') => last'.op = "rb_alloc"
       /\ fb.initialized = 0 =>
            /\ FbIsEmpty(fb)
            /\ last'.op \in FbNeedsStorage =>
                 (last'.ret = -1 /\ fb' = fb /\ FbIsEmpty(fb'))
            /\ ~FbIsEmpty(fb') => last'.op = "fb_alloc"]_vars

\* an insert was refused by a ring buffer that has no storage
C12_Witness ==
    /\ last.op = "rb_insert" /\ last.ret = -1 /\ last.diag
    /\ RbIsEmpty(rb) /\ inserted = <<>>

\* C13: on an allocated ring buffer of capacity c, get(position) fails for
\* position < 0 and for position >= c, succeeds for 0 <= position <= c-1,
\* and a failed get changes neither the buffer nor the caller's output.
C13_GetRejectsOutOfRange ==
    [][/\ (last'.op = "rb_get_value" /\ rb.initialized # 0) =>
            /\ (last'.arg < 0 \/ last'.arg >= rb.size) =>
                 (last'.ret = -1 /\ rb' = rb /\ val' = val)
            /\ (0 <= last'.arg /\ last'.arg <= rb.size - 1) => last'.ret = 0
       /\ (last'.op = "rb_get_value_ptr" /\ rb.initialized # 0) =>
            /\ (last'.arg < 0 \/ last'.arg >= rb.size) =>
                 (last'.ret = -1 /\ rb' = rb /\ val_ptr' = val_ptr)
            /\ (0 <= last'.arg /\ last'.arg <= rb.size - 1) => last'.ret = 0]_vars

\* get(c) was refused by a ring buffer of capacity c that holds data, and
\* the caller's value is not the one stored behind the cursor
C13_Witness ==
    /\ last.op = "rb_get_value" /\ last.ret = -1 /\ last.diag
    /\ rb.initialized # 0 /\ last.arg = rb.size
    /\ Dirty(rb.d) /\ val # rb.d[rb.index]

\* the first insert, when no later insert carries the same value
OldestIsDistinct ==
    /\ Len(inserted) > 0
    /\ \A i \in 2..Len(inserted) : inserted[i] # inserted[1]

\* C14: on an allocated ring buffer insert(value) always succeeds, writes
\* exactly the slot at the new cursor and keeps the capacity; once more than
\* capacity values have been inserted no get(p) returns the oldest one.
C14_RingAlwaysAccepts ==
    [][/\ (last'.op = "rb_insert" /\ rb.initialized # 0) =>
            /\ last'.ret = 0
            /\ rb'.initialized # 0
            /\ rb'.size = rb.size
            /\ DOMAIN rb'.d = DOMAIN rb.d
            /\ rb'.index = (rb.index + 1) % rb.size
            /\ rb'.d[rb'.index] = last'.arg
            /\ \A i \in DOMAIN rb.d \ {rb'.index} : rb'.d[i] = rb.d[i]
       /\ (rb.initialized # 0 /\ Len(inserted) > rb.size /\ OldestIsDistinct) =>
            \A p \in Positions :
               LET r == rc_ringbuf_get_value(rb, p, val) IN
               r.ret = 0 => r.value # inserted[1]]_vars

\* capacity 2 after the inserts 1,0,0: the 1 has been overwritten
C14_Witness ==
    /\ last.op = "rb_insert" /\ last.ret = 0
    /\ rb.initialized # 0 /\ rb.size = 2
    /\ inserted = <<1, 0, 0>>
    /\ ~Dirty(rb.d)

RbRedo(op, arg, buf) ==
    CASE op = "rb_reset" -> rc_ringbuf_reset(buf).ret
      [] op = "rb_insert" -> rc_ringbuf_insert(buf, arg).ret
      [] op = "rb_get_value" -> rc_ringbuf_get_value(buf, arg, val).ret
      [] op = "rb_get_value_ptr" -> rc_ringbuf_get_value_ptr(buf, arg, val_ptr).ret
FbRedo(op, arg, buf) ==
    CASE op = "fb_reset" -> rc_fifobuf_reset(buf).ret
      [] op = "fb_available" -> rc_fifobuf_available(buf).ret
      [] op = "fb_push" -> rc_fifobuf_push(buf, arg).ret
      [] op = "fb_pop" -> rc_fifobuf_pop(buf, val).ret
      [] op = "fb_pop_ptr" -> rc_fifobuf_pop_ptr(buf, val_ptr).ret
\* available() reports failure as -1 and success as the count
Succeeded(op, ret) == IF op = "fb_available" THEN ret >= 0 ELSE ret = 0

\* full: push fails, and after one successful pop the next push succeeds
RecoverFromFull ==
    (fb.initialized # 0 /\ fb.available = fb.size) =>
        \A v \in Values :
           LET p == rc_fifobuf_pop(fb, val) IN
           /\ rc_fifobuf_push(fb, v).ret = -1
           /\ p.ret = 0
           /\ rc_fifobuf_push(p.buf, v).ret = 0

\* empty: pop fails, and after one successful push the next pop succeeds
\* and returns the pushed value
RecoverFromEmpty ==
    (fb.initialized # 0 /\ fb.available = 0) =>
        \A v \in Values :
           LET q == rc_fifobuf_push(fb, v)
               r == rc_fifobuf_pop(q.buf, val) IN
           /\ rc_fifobuf_pop(fb, val).ret = -1
           /\ q.ret = 0
           /\ r.ret = 0 /\ r.value = v

\* C16 as stated: after a failed push on a full buffer one pop makes push
\* succeed; after a failed pop on an empty buffer one push makes pop succeed
\* and return that value; and after any call that failed because the buffer
\* is unallocated, a successful allocate makes the same call succeed (a get
\* is made again only with a position valid at the new capacity).
C16_Original ==
    /\ RecoverFromFull
    /\ RecoverFromEmpty
    /\ (last.op \in RbNeedsStorage /\ last.ret = -1 /\ rb.initialized = 0) =>
         \A c \in 2..MaxCap :
            LET a == rc_ringbuf_alloc(rb, c, TRUE) IN
            /\ a.ret = 0
            /\ (last.op \in {"rb_get_value", "rb_get_value_ptr"} =>
                  (0 <= last.arg /\ last.arg < c))
                 => Succeeded(last.op, RbRedo(last.op, last.arg, a.buf))
    /\ (last.op \in FbNeedsStorage /\ last.ret = -1 /\ fb.initialized = 0) =>
         \A c \in 2..MaxCap :
            LET a == rc_fifobuf_alloc(fb, c, TRUE) IN
            /\ a.ret = 0
            /\ Succeeded(last.op, FbRedo(last.op, last.arg, a.buf))

\* C16 (amended): as stated for full and empty; from an unallocated buffer a
\* successful allocate makes reset, insert, available, push and get(p) with
\* 0 <= p < capacity succeed, while pop then fails silently because the new
\* buffer is empty and succeeds, returning the value, after one push.
C16_Recoverable ==
    /\ RecoverFromFull
    /\ RecoverFromEmpty
    /\ rb.initialized = 0 =>
         \A c \in 2..MaxCap :
            LET a == rc_ringbuf_alloc(rb, c, TRUE) IN
            /\ a.ret = 0
            /\ rc_ringbuf_reset(a.buf).ret = 0
            /\ \A v \in Values : rc_ringbuf_insert(a.buf, v).ret = 0
            /\ \A p \in 0..(c - 1) :
                 /\ rc_ringbuf_get_value(a.buf, p, val).ret = 0
                 /\ rc_ringbuf_get_value_ptr(a.buf, p, val_ptr).ret = 0
    /\ fb.initialized = 0 =>
         \A c \in 2..MaxCap :
            LET a == rc_fifobuf_alloc(fb, c, TRUE) IN
            /\ a.ret = 0
            /\ rc_fifobuf_reset(a.buf).ret = 0
            /\ rc_fifobuf_available(a.buf).ret = 0
            /\ rc_fifobuf_pop(a.buf, val).ret = -1
            /\ ~rc_fifobuf_pop(a.buf, val).diag
            /\ rc_fifobuf_pop_ptr(a.buf, val_ptr).ret = -1
            /\ \A v \in Values :
                 LET q == rc_fifobuf_push(a.buf, v)
                     r == rc_fifobuf_pop(q.buf, val) IN
                 q.ret = 0 /\ r.ret = 0 /\ r.value = v

\* a pop has just failed, with a diagnostic, on an unallocated fifo buffer
C16_Witness ==
    /\ last.op = "fb_pop" /\ last.ret = -1 /\ last.diag
    /\ fb.initialized = 0

\* the slots of the unread region [tail, tail + available) mod size
Occupied(buf) ==
    {(buf.tail + k) % buf.size : k \in 0..(buf.available - 1)}

\* C17: get (value and pointer variant) and available leave the struct and
\* every stored element unchanged whether they succeed or fail, and the same
\* get(p) made twice returns the same value; a successful pop takes the
\* element out of the unread region, so no later pop returns it.
C17_ReadsNonDestructive ==
    [][/\ last'.op \in {"rb_get_value", "rb_get_value_ptr"} => rb' = rb
       /\ last'.op = "fb_available" => fb' = fb
       /\ which = "ring" =>
            \A p \in Positions :
              LET r1 == rc_ringbuf_get_value(rb, p, val)
                  r2 == rc_ringbuf_get_value(r1.buf, p, r1.value) IN
              r1.buf = rb /\ r2.ret = r1.ret /\ r2.value = r1.value
       /\ (last'.op \in {"fb_pop", "fb_pop_ptr"} /\ last'.ret = 0) =>
            /\ fb'.available = fb.available - 1
            /\ fb.tail \in Occupied(fb)
            /\ fb.tail \notin Occupied(fb')
            /\ Len(popped') = Len(popped) + 1
            /\ fb'.d = fb.d]_vars

\* the cursor has wrapped to slot 0; get(1) read a 1 that is still stored
\* one step behind it, in the last slot
C17_Witness ==
    /\ last.op = "rb_get_value" /\ last.ret = 0 /\ last.arg = 1
    /\ val = 1 /\ rb.d[RbReturnIndex(rb, 1)] = 1
    /\ rb.index = 0 /\ Len(inserted) >= rb.size

\* C18: in every state and for every position get_value_ptr succeeds exactly
\* when get_value does and points to the slot holding the value get_value
\* returns; pop_ptr succeeds exactly when pop does, points to the slot
\* holding the value pop would return and changes head and count alike.
C18_PointerVariantsAgree ==
    /\ \A p \in Positions :
         LET a == rc_ringbuf_get_value(rb, p, val)
             b == rc_ringbuf_get_value_ptr(rb, p, val_ptr) IN
         /\ a.ret = b.ret
         /\ a.buf = b.buf
         /\ a.ret = 0 => (b.value_ptr \in DOMAIN rb.d /\ rb.d[b.value_ptr] = a.value)
    /\ LET a == rc_fifobuf_pop(fb, val)
           b == rc_fifobuf_pop_ptr(fb, val_ptr) IN
       /\ a.ret = b.ret
       /\ a.buf = b.buf
       /\ a.ret = 0 => (b.value_ptr \in DOMAIN fb.d /\ fb.d[b.value_ptr] = a.value)
    /\ (last.op = "rb_get_value_ptr" /\ last.ret = 0) =>
         rc_ringbuf_get_value(rb, last.arg, val).value = rb.d[val_ptr]
    /\ (last.op = "fb_pop_ptr" /\ last.ret = 0) =>
         popped[Len(popped)] = fb.d[val_ptr]

\* get_value_ptr(2) points at a stored 1 that is not under the cursor
C18_Witness ==
    /\ last.op = "rb_get_value_ptr" /\ last.ret = 0 /\ last.arg = 2
    /\ rb.size = 3 /\ val_ptr # rb.index
    /\ rb.d[val_ptr] = 1 /\ rb.d[rb.index] = 0

\* C19: the slot handed out by a successful pop_ptr keeps the popped value
\* until a push writes it; with count k before the pop_ptr that push is the
\* (capacity - k + 1)-th accepted push after it, and no earlier push, pop
\* or available call changes the slot.
C19_PopPtrLifetime ==
    [][/\ RefLive(fb, ref) =>
            (ref.slot = val_ptr /\ fb.d[ref.slot] = ref.value)
       /\ RefLive(fb', ref') =>
            (ref'.slot = val_ptr' /\ fb'.d[ref'.slot] = ref'.value)
       /\ (RefLive(fb, ref) /\ last'.op \in {"fb_pop", "fb_available"}) =>
            (fb'.d[ref.slot] = ref.value /\ ref' = ref)
       /\ (RefLive(fb, ref) /\ last'.op = "fb_push" /\ last'.ret = 0) =>
            IF ref.pushes + 1 = fb.size - ref.k + 1
            THEN /\ fb'.d[ref.slot] = last'.arg
                 /\ \A i \in DOMAIN fb.d \ {ref.slot} : fb'.d[i] = fb.d[i]
                 /\ ~RefLive(fb', ref')
            ELSE /\ fb'.d[ref.slot] = ref.value
                 /\ RefLive(fb', ref')
       /\ (RefLive(fb, ref) /\ last'.op = "fb_push" /\ last'.ret # 0) =>
            (fb'.d[ref.slot] = ref.value /\ ref' = ref)]_vars

\* pop_ptr on a full buffer, and the very next push replaced the value the
\* pointer refers to
C19_Witness ==
    /\ last.op = "fb_push" /\ last.ret = 0
    /\ ref.slot # NoPtr /\ ref.slot = val_ptr
    /\ ref.k = fb.size /\ ref.pushes = 1
    /\ fb.d[ref.slot] = last.arg /\ last.arg # ref.value

\* pop_ptr at count 1 on capacity 3: two pushes later the slot still holds
\* the popped value
C19_StillLive ==
    /\ fb.size = 3 /\ ref.k = 1 /\ ref.pushes = 2 /\ ref.value = 1
    /\ fb.d[ref.slot] = 1 /\ pushed = <<1, 0, 0>>

\* C20: for every capacity c >= 2 that fits the int type, every index used
\* by push, pop, insert and get lies in [0, c) and no intermediate result
\* overflows the int type.
C20_AccessInBounds ==
    ix.accessed => (0 <= ix.acc /\ ix.acc < ix.size /\ ~ix.ovf)

\* the same for pop, insert and get alone
C20_OthersInBounds ==
    (ix.accessed /\ ix.op # "push") =>
        (0 <= ix.acc /\ ix.acc < ix.size /\ ~ix.ovf)

\* a push whose tail + available does not fit the int type
C20_Overflow ==
    ix.op = "push" /\ ix.ovf /\ ix.acc < 0

\* live blocks: the one buf->d points to and those nothing points to
LiveBlocks(h) == h.leaked + (IF h.d = "live" THEN 1 ELSE 0)

\* buf->d is NULL or points to a live block, and nothing went wrong so far
HeapSound(h, d) ==
    /\ ~h.double_free
    /\ ~h.bad_access
    /\ LiveBlocks(h) <= 1
    /\ (d = NULL) <=> (h.d = "null")
    /\ (d # NULL) <=> (h.d = "live")

\* every call on the struct except allocate and release fails
RbOnlyAllocHelps(buf) ==
    /\ rc_ringbuf_reset(buf).ret = -1
    /\ \A v \in Values : rc_ringbuf_insert(buf, v).ret = -1
    /\ \A p \in Positions :
         /\ rc_ringbuf_get_value(buf, p, val).ret = -1
         /\ rc_ringbuf_get_value_ptr(buf, p, val_ptr).ret = -1
FbOnlyAllocHelps(buf) ==
    /\ rc_fifobuf_reset(buf).ret = -1
    /\ rc_fifobuf_available(buf).ret = -1
    /\ \A v \in Values : rc_fifobuf_push(buf, v).ret = -1
    /\ rc_fifobuf_pop(buf, val).ret = -1
    /\ rc_fifobuf_pop_ptr(buf, val_ptr).ret = -1

\* C21: over every sequence of calls on a buffer that started empty, with
\* calloc free to fail, no block is freed twice, no block that is not live
\* is read or written, at most one block is live, after release no block is
\* live, and an allocate whose calloc fails returns -1 and leaves the buffer
\* unallocated (size 0, d NULL, no live block), so that every call other
\* than allocate and release fails on it.
C21_StorageDiscipline ==
    [][/\ which = "ring" => (HeapSound(heap, rb.d) /\ HeapSound(heap', rb'.d))
       /\ which = "fifo" => (HeapSound(heap, fb.d) /\ HeapSound(heap', fb'.d))
       /\ last'.op \in {"rb_free", "fb_free"} => LiveBlocks(heap') = 0
       /\ (last'.op = "rb_alloc" /\ ~RbSizeTooSmall(last'.arg)
             /\ ~RbAllocated(rb, last'.arg)) =>
            LET r == rc_ringbuf_alloc(rb, last'.arg, FALSE)
                h == rc_ringbuf_alloc_heap(rb, heap, last'.arg, FALSE) IN
            /\ r.ret = -1 /\ RbIsEmpty(r.buf) /\ RbOnlyAllocHelps(r.buf)
            /\ LiveBlocks(h) = 0 /\ HeapSound(h, r.buf.d)
            /\ last'.ret = -1 => (rb' = r.buf /\ heap' = h)
       /\ (last'.op = "fb_alloc" /\ last'.arg >= 2
             /\ ~FbAllocated(fb, last'.arg)) =>
            LET r == rc_fifobuf_alloc(fb, last'.arg, FALSE)
                h == rc_fifobuf_alloc_heap(fb, heap, last'.arg, FALSE) IN
            /\ r.ret = -1 /\ FbIsEmpty(r.buf) /\ FbOnlyAllocHelps(r.buf)
            /\ LiveBlocks(h) = 0 /\ HeapSound(h, r.buf.d)
            /\ last'.ret = -1 => (fb' = r.buf /\ heap' = h)]_vars

\* calloc failed in an allocate on a fifo buffer that held data in a live
\* block: the old block is freed and the buffer is back in the empty state
C21_Witness ==
    /\ last.op = "fb_alloc" /\ last.arg >= 2 /\ last.ret = -1 /\ last.diag
    /\ last.pre.initialized # 0 /\ last.pre.dirty
    /\ FbIsEmpty(fb) /\ heap.d = "null" /\ LiveBlocks(heap) = 0

\* an insert has written into the one live block
C21_Realloc ==
    /\ last.op = "rb_insert" /\ last.ret = 0
    /\ heap.d = "live" /\ LiveBlocks(heap) = 1 /\ Dirty(rb.d)

====
